---------------------------- MODULE Spec2Model ----------------------------
(***************************************************************************)
(* A model of EncDecTransfModelBPE                                         *)
(* (nemo/collections/asr/models/transformer_bpe_models.py):                *)
(*   - transcribe, the inference entry point with its try/finally          *)
(*     restoration of mode, dither, pad_to and freeze state (Spec);        *)
(*   - forward's argument contract (SpecForward);                          *)
(*   - validation_step / test_step and multi_validation_epoch_end with     *)
(*     the shared val_loss accumulator (SpecEval).                         *)
(* Texts are sequences of one-character strings.                           *)
(***************************************************************************)
EXTENDS Integers, Sequences, FiniteSets, TLC

VARIABLES
    \* ---- the model object ----
    training,            \* self.training
    dither,              \* self.preprocessor.featurizer.dither (units of 1e-5)
    pad_to,              \* self.preprocessor.featurizer.pad_to
    encoder_frozen,      \* self.encoder's parameters are frozen
    decoder_frozen,      \* self.transf_decoder's parameters are frozen
    verbosity,           \* the logging verbosity (process wide)
    spec_augmentation,   \* self.spec_augmentation is not None
    \* ---- one transcribe call ----
    pc,                  \* position in transcribe
    args,                \* paths2audio_files, batch_size, logprobs, return_hypotheses
    saved,               \* the locals mode, dither_value, pad_to_value, logging_level
    hypotheses,          \* the local list hypotheses
    datalayer,           \* files the temporary dataloader has still to yield
    tmpdirs,             \* temporary directories that exist
    dirs_created,        \* how many temporary directories were ever created
    pending_exc,         \* the exception in flight ("none" when none)
    outcome,             \* what the caller of transcribe got
    pre,                 \* the model object as it was when transcribe was called
    fwd_log,             \* the model state seen by each forward call of transcribe
    \* ---- one direct forward call ----
    fwd_args,            \* which arguments of forward are not None
    fwd_result,          \* what forward did
    \* ---- evaluation ----
    num_val_dl,          \* len(trainer.val_dataloaders)
    num_test_dl,         \* number of test dataloaders
    validation_step_outputs,
    test_step_outputs,
    val_loss,            \* GlobalAverageLossMetric: loss_sum, num_measurements
    logged,              \* what self.log received in the current epoch
    phase,               \* the trainer loop: idle, steps, epoch_end, finished, crashed
    eval_mode,           \* "val" or "test": the epoch being run
    cur_dl,              \* the dataloader the trainer loop is at
    resets,              \* val_loss.reset() calls in the current epoch
    produced,            \* per dataloader, the outputs its steps returned this
                         \* epoch, each with the number of its measurements
    step_error,          \* the exception the last step raised ("none" when none)
    \* ---- successive transcribe calls ----
    calls,               \* transcribe calls started so far
    dirs_used,           \* the temporary directories earlier calls worked in
    \* ---- the epoch end on several workers ----
    w_world_size,        \* self.world_size
    w_outputs,           \* per rank, the step outputs handed to the epoch end
    w_pc,                \* per rank, the position in multi_validation_epoch_end
    w_val_loss,          \* per rank, self.val_loss
    gather_buf,          \* per rank, what it handed to all_gather_object
    w_tr_and_gt,         \* per rank, the local list tr_and_gt
    w_reported,          \* per rank, what it gave to self.log
    w_collectives,       \* per rank, the collective calls it has entered
    \* ---- lens_to_mask ----
    m_lens,              \* the argument lens
    m_max_length,        \* the argument max_length
    m_mask,              \* the result
    \* ---- _strip_special_tokens ----
    s_text,              \* the argument text
    s_stripped,          \* the result
    \* ---- beam search ----
    beam_cfg,            \* transf_decoder.max_sequence_length and cfg.beam_search
    beam                 \* self.beam_search: its parameters and one run of it

model_vars == <<training, dither, pad_to, encoder_frozen, decoder_frozen,
                verbosity, spec_augmentation>>
call_vars == <<pc, args, saved, hypotheses, datalayer, tmpdirs, dirs_created,
               pending_exc, outcome, pre, fwd_log>>
fwd_vars == <<fwd_args, fwd_result>>
eval_vars == <<num_val_dl, num_test_dl, validation_step_outputs,
               test_step_outputs, val_loss, logged, phase, eval_mode, cur_dl,
               resets, produced, step_error>>
xcall_vars == <<calls, dirs_used>>
dist_vars == <<w_world_size, w_outputs, w_pc, w_val_loss, gather_buf, w_tr_and_gt,
               w_reported, w_collectives>>
mask_vars == <<m_lens, m_max_length, m_mask>>
strip_vars == <<s_text, s_stripped>>
beam_vars == <<beam_cfg, beam>>
aux_vars == <<xcall_vars, dist_vars, mask_vars, strip_vars, beam_vars>>
vars == <<model_vars, call_vars, fwd_vars, eval_vars, aux_vars>>

\* The parts of the state a specification does not use.
XCallIdle == calls = 1 /\ dirs_used = {}
DistIdle ==
    /\ w_world_size = 1
    /\ w_outputs = <<>>
    /\ w_pc = <<>>
    /\ w_val_loss = <<>>
    /\ gather_buf = <<>>
    /\ w_tr_and_gt = <<>>
    /\ w_reported = <<>>
    /\ w_collectives = <<>>
MaskIdle == m_lens = <<>> /\ m_max_length = 0 /\ m_mask = <<>>
StripIdle == s_text = <<>> /\ s_stripped = <<>>
BeamIdle ==
    /\ beam_cfg = [decoder_max_sequence_length |-> 0, max_generation_delta |-> 0,
                   beam_size |-> 0]
    /\ beam = [pc |-> "idle", max_sequence_length |-> 0, max_delta_length |-> 0,
               beam_size |-> 0, limit |-> 0, steps |-> 0, finished |-> 0]

---------------------------------------------------------------------------
(* Bounds *)
MaxFiles == 3        \* longest paths2audio_files
MaxBatch == 2        \* largest batch_size argument
MaxDL == 2           \* most validation (test) dataloaders
MaxSteps == 2        \* most steps of one dataloader in an epoch
MaxWorld == 3        \* largest world size
MaxCalls == 2        \* most successive calls of transcribe
MaxMaskBatch == 2    \* largest batch given to lens_to_mask
MaxLen == 3          \* largest length in a length vector
MaxT == 2            \* largest max_length given to lens_to_mask
MaxTextLen == 7      \* longest text given to _strip_special_tokens
MaxSeqLen == 3       \* largest max_sequence_length of the decoder
MaxDelta == 2        \* largest beam_search.max_generation_delta
MaxBeam == 2         \* largest beam_search.beam_size

Min(a, b) == IF a < b THEN a ELSE b

DitherValues == {0, 1}
PadToValues == {0, 16}
NoArgs == [paths2audio_files |-> <<>>, batch_size |-> 1, logprobs |-> FALSE,
           return_hypotheses |-> FALSE]

---------------------------------------------------------------------------
(* Texts and _strip_special_tokens *)

\* The first index j >= i with text[j] = ">", or Len(text) + 1 when none.
RECURSIVE FirstClose(_, _)
FirstClose(text, i) ==
    IF i > Len(text) THEN Len(text) + 1
    ELSE IF text[i] = ">" THEN i
    ELSE FirstClose(text, i + 1)

\* Whether the pattern <[^>]+> matches at index i; its last index is
\* FirstClose(text, i + 1).
MatchesAtNoOpenInside(text, i) ==
    /\ i + 2 <= Len(text)
    /\ text[i] = "<"
    /\ text[i + 1] # ">"
    /\ FirstClose(text, i + 1) <= Len(text)
    /\ \A j \in (i + 1)..(FirstClose(text, i + 1) - 1) : text[j] # "<"
MatchesAt(text, i) ==
    /\ i + 2 <= Len(text)
    /\ text[i] = "<"
    /\ text[i + 1] # ">"
    /\ FirstClose(text, i + 1) <= Len(text)

\* re.sub(r'<[^>]+>', '', text): leftmost non-overlapping matches removed.
RECURSIVE SubFrom(_, _)
SubFrom(text, i) ==
    IF i > Len(text) THEN <<>>
    ELSE IF MatchesAt(text, i) THEN SubFrom(text, FirstClose(text, i + 1) + 1)
    ELSE <<text[i]>> \o SubFrom(text, i + 1)

_strip_special_tokens(text) == SubFrom(text, 1)

\* Whether text has a substring matching <[^>]+>.
HasSpecialToken(text) == \E i \in 1..Len(text) : MatchesAt(text, i)

\* What tokenizer.ids_to_text may give for a beam hypothesis of transcribe.
TranscribeTexts == { <<"a">>, <<"<", "s", ">", "a">> }

---------------------------------------------------------------------------
(* forward *)

\* The argument check and the branches of forward.  a is a record telling which
\* arguments are not None; the result tells whether forward raised, ran the
\* preprocessor, applied spec augmentation, and returned log probabilities.
XorFalseBothOnly(has_input_signal, has_processed_signal) ==
    has_input_signal /\ has_processed_signal
XorFalse(has_input_signal, has_processed_signal) ==
    (has_input_signal /\ has_processed_signal)
        \/ (~has_input_signal /\ ~has_processed_signal)

forward(a, is_training, has_spec_aug) ==
    LET has_input_signal == a.input_signal /\ a.input_signal_length
        has_processed_signal == a.processed_signal /\ a.processed_signal_length
    IN  IF XorFalse(has_input_signal, has_processed_signal)
        THEN [raised |-> "ValueError", preprocessed |-> FALSE,
              augmented |-> FALSE, log_probs |-> FALSE]
        ELSE [raised |-> "none",
              preprocessed |-> ~has_processed_signal,
              augmented |-> has_spec_aug /\ is_training,
              log_probs |-> a.transcript]

RawSignalArgs == [input_signal |-> TRUE, input_signal_length |-> TRUE,
                  processed_signal |-> FALSE, processed_signal_length |-> FALSE,
                  transcript |-> FALSE]

---------------------------------------------------------------------------
(* transcribe *)

\* NeuralModule.freeze / unfreeze: every parameter stops / starts requiring
\* gradients.
freeze(frozen) == TRUE
unfreeze(frozen) == FALSE

Snapshot == [training |-> training, dither |-> dither, pad_to |-> pad_to,
             encoder_frozen |-> encoder_frozen,
             decoder_frozen |-> decoder_frozen,
             dirs_created |-> dirs_created]

\* "if return_hypotheses and logprobs: raise ValueError"
FlagsConflictIgnored(return_hypotheses, logprobs) == FALSE
FlagsConflict(return_hypotheses, logprobs) == return_hypotheses /\ logprobs

Raised(exc) == [kind |-> "raised", exc |-> exc, value |-> <<>>]
Returned(value) == [kind |-> "returned", exc |-> "none", value |-> value]

\* Entry of transcribe: the two early exits, then the locals.  The empty-list
\* exit returns {} (an empty container, modelled as the empty sequence).
TranscribeBegin ==
    /\ pc = "idle"
    /\ \E n \in 0..MaxFiles, bs \in 1..MaxBatch, lp \in BOOLEAN, rh \in BOOLEAN :
        /\ args' = [paths2audio_files |-> [i \in 1..n |-> i], batch_size |-> bs,
                    logprobs |-> lp, return_hypotheses |-> rh]
        /\ pre' = Snapshot
        /\ IF n = 0
           THEN /\ outcome' = Returned(<<>>)
                /\ pc' = "done"
                /\ UNCHANGED saved
           ELSE IF FlagsConflict(rh, lp)
           THEN /\ outcome' = Raised("ValueError")
                /\ pc' = "done"
                /\ UNCHANGED saved
           ELSE /\ saved' = [mode |-> training, dither_value |-> dither,
                             pad_to_value |-> pad_to, logging_level |-> "unbound",
                             tmpdir |-> 0]
                /\ pc' = "try"
                /\ UNCHANGED outcome
    /\ hypotheses' = <<>>
    /\ UNCHANGED <<model_vars, datalayer, tmpdirs, dirs_created, pending_exc,
                   fwd_log, fwd_vars, eval_vars, aux_vars>>

\* The head of the try block: augmentation off, eval mode, freeze, verbosity.
TranscribeSetupNoEval ==
    /\ pc = "try"
    /\ dither' = 0
    /\ pad_to' = 0
    /\ encoder_frozen' = freeze(encoder_frozen)
    /\ decoder_frozen' = freeze(decoder_frozen)
    /\ saved' = [saved EXCEPT !.logging_level = verbosity]
    /\ verbosity' = "WARNING"
    /\ pc' = "tmpdir"
    /\ UNCHANGED <<training, spec_augmentation, args, hypotheses, datalayer,
                   tmpdirs, dirs_created, pending_exc, outcome, pre, fwd_log,
                   fwd_vars, eval_vars, aux_vars>>
TranscribeSetup ==
    /\ pc = "try"
    /\ dither' = 0
    /\ pad_to' = 0
    /\ training' = FALSE
    /\ encoder_frozen' = freeze(encoder_frozen)
    /\ decoder_frozen' = freeze(decoder_frozen)
    /\ saved' = [saved EXCEPT !.logging_level = verbosity]
    /\ verbosity' = "WARNING"
    /\ pc' = "tmpdir"
    /\ UNCHANGED <<spec_augmentation, args, hypotheses, datalayer, tmpdirs,
                   dirs_created, pending_exc, outcome, pre, fwd_log, fwd_vars,
                   eval_vars, aux_vars>>

\* "with tempfile.TemporaryDirectory() as tmpdir": a fresh directory, and the
\* manifest written into it.
TranscribeManifest ==
    /\ pc = "tmpdir"
    /\ dirs_created' = dirs_created + 1
    /\ tmpdirs' = tmpdirs \cup {dirs_created + 1}
    /\ saved' = [saved EXCEPT !.tmpdir = dirs_created + 1]
    /\ dirs_used' = dirs_used \cup {[call |-> calls, dir |-> dirs_created + 1]}
    /\ pc' = "dataloader"
    /\ UNCHANGED <<model_vars, args, hypotheses, datalayer, pending_exc, outcome,
                   pre, fwd_log, fwd_vars, eval_vars, calls, dist_vars, mask_vars,
                   strip_vars, beam_vars>>

\* Leaving the with block, normally or by an exception, removes the directory.
LeaveTmpdirKeepsIt == tmpdirs' = tmpdirs
LeaveTmpdir == tmpdirs' = tmpdirs \ {saved.tmpdir}

\* The batch size _setup_transcribe_dataloader gives the dataloader.
TranscribeBatchSize(config) ==
    Min(config.batch_size, Len(config.paths2audio_files))

\* _setup_transcribe_dataloader: an unshuffled dataloader over the manifest,
\* or an exception from building it.
SetupTranscribeDataloader ==
    /\ pc = "dataloader"
    /\ \/ /\ datalayer' = args.paths2audio_files
          /\ pc' = "loop"
          /\ UNCHANGED <<tmpdirs, pending_exc>>
       \/ /\ pending_exc' = "RuntimeError"
          /\ LeaveTmpdir
          /\ pc' = "finally"
          /\ UNCHANGED datalayer
    /\ UNCHANGED <<model_vars, args, saved, hypotheses, dirs_created, outcome,
                   pre, fwd_log, fwd_vars, eval_vars, aux_vars>>

\* One iteration of "for test_batch in temporary_datalayer": the next
\* batch_size files (fewer in the last batch) go through forward, beam search
\* and ids_to_text.  Loading the batch or the beam search may raise; with
\* return_hypotheses the loop body reads the undefined name `logits`.
TranscribeBatch ==
    /\ pc = "loop"
    /\ datalayer # <<>>
    /\ LET k == Min(TranscribeBatchSize(args), Len(datalayer))
           test_batch == SubSeq(datalayer, 1, k)
           r == forward(RawSignalArgs, training, spec_augmentation)
           seen == [training |-> training, dither |-> dither, pad_to |-> pad_to,
                    encoder_frozen |-> encoder_frozen,
                    decoder_frozen |-> decoder_frozen,
                    augmented |-> r.augmented]
           Abort(exc) == /\ pending_exc' = exc
                         /\ LeaveTmpdir
                         /\ pc' = "finally"
                         /\ UNCHANGED <<hypotheses, datalayer>>
       IN  \/ /\ Abort("RuntimeError")
              /\ UNCHANGED fwd_log
           \/ /\ fwd_log' = fwd_log \cup {seen}
              /\ \/ Abort(IF r.raised # "none" THEN r.raised ELSE "RuntimeError")
                 \/ /\ r.raised = "none"
                    /\ \E texts \in [1..k -> TranscribeTexts] :
                         IF args.return_hypotheses
                         THEN Abort("NameError")
                         ELSE /\ hypotheses' = hypotheses \o
                                    [i \in 1..k |-> [file |-> test_batch[i],
                                                     text |-> texts[i]]]
                              /\ datalayer' = SubSeq(datalayer, k + 1, Len(datalayer))
                              /\ UNCHANGED <<pending_exc, tmpdirs, pc>>
    /\ UNCHANGED <<model_vars, args, saved, dirs_created, outcome, pre, fwd_vars,
                   eval_vars, aux_vars>>

\* The dataloader is exhausted: the with block is left.
TranscribeLoopEnd ==
    /\ pc = "loop"
    /\ datalayer = <<>>
    /\ LeaveTmpdir
    /\ pc' = "finally"
    /\ UNCHANGED <<model_vars, args, saved, hypotheses, datalayer, dirs_created,
                   pending_exc, outcome, pre, fwd_log, fwd_vars, eval_vars, aux_vars>>

\* The assignments of the finally block.
RestoreOnSuccessOnly ==
    IF pending_exc = "none"
    THEN /\ training' = saved.mode
         /\ dither' = saved.dither_value
         /\ pad_to' = saved.pad_to_value
         /\ encoder_frozen' = IF saved.mode THEN unfreeze(encoder_frozen)
                              ELSE encoder_frozen
         /\ decoder_frozen' = IF saved.mode THEN unfreeze(decoder_frozen)
                              ELSE decoder_frozen
         /\ verbosity' = saved.logging_level
    ELSE UNCHANGED <<training, dither, pad_to, encoder_frozen, decoder_frozen,
                     verbosity>>
Restore ==
    /\ training' = saved.mode
    /\ dither' = saved.dither_value
    /\ pad_to' = saved.pad_to_value
    /\ encoder_frozen' = IF saved.mode THEN unfreeze(encoder_frozen)
                         ELSE encoder_frozen
    /\ decoder_frozen' = IF saved.mode THEN unfreeze(decoder_frozen)
                         ELSE decoder_frozen
    /\ verbosity' = saved.logging_level

\* What the caller gets once the finally block has run: the exception in
\* flight, or "return hypotheses".
FinallySwallows(exc, hyps) == Returned(hyps)
FinallyOutcome(exc, hyps) ==
    IF exc # "none" THEN Raised(exc) ELSE Returned(hyps)

\* The finally block and the return.
TranscribeFinally ==
    /\ pc = "finally"
    /\ Restore
    /\ outcome' = FinallyOutcome(pending_exc, hypotheses)
    /\ pc' = "done"
    /\ UNCHANGED <<spec_augmentation, args, saved, hypotheses, datalayer, tmpdirs,
                   dirs_created, pending_exc, pre, fwd_log, fwd_vars, eval_vars, aux_vars>>

NotCalled == [raised |-> "not_called", preprocessed |-> FALSE,
              augmented |-> FALSE, log_probs |-> FALSE]

FwdIdle == /\ fwd_args = RawSignalArgs
           /\ fwd_result = NotCalled

EvalIdle ==
    /\ num_val_dl = 1
    /\ num_test_dl = 1
    /\ validation_step_outputs = [flat |-> <<>>, lists |-> <<>>]
    /\ test_step_outputs = [flat |-> <<>>, lists |-> <<>>]
    /\ val_loss = [loss_sum |-> 0, num_measurements |-> 0]
    /\ logged = <<>>
    /\ phase = "idle"
    /\ eval_mode = "val"
    /\ cur_dl = 0
    /\ resets = 0
    /\ produced = <<>>
    /\ step_error = "none"

CallIdle ==
    /\ pc = "idle"
    /\ args = NoArgs
    /\ saved = [mode |-> FALSE, dither_value |-> 0, pad_to_value |-> 0,
                logging_level |-> "unbound", tmpdir |-> 0]
    /\ hypotheses = <<>>
    /\ datalayer = <<>>
    /\ tmpdirs = {}
    /\ dirs_created = 0
    /\ pending_exc = "none"
    /\ outcome = [kind |-> "none", exc |-> "none", value |-> <<>>]
    /\ pre = Snapshot
    /\ fwd_log = {}

\* A constructed model: any mode, any featurizer parameters, encoder and decoder
\* frozen or not, spec augmentation configured or not.
ModelInit ==
    /\ training \in BOOLEAN
    /\ dither \in DitherValues
    /\ pad_to \in PadToValues
    /\ encoder_frozen \in BOOLEAN
    /\ decoder_frozen \in BOOLEAN
    /\ verbosity = "INFO"
    /\ spec_augmentation \in BOOLEAN

Init == ModelInit /\ CallIdle /\ FwdIdle /\ EvalIdle /\ XCallIdle /\ DistIdle
            /\ MaskIdle /\ StripIdle /\ BeamIdle

\* The caller calls transcribe once more on the same model: the locals of
\* the call that ended are gone, the model and the file system stay.
TranscribeAgain ==
    /\ pc = "done"
    /\ calls < MaxCalls
    /\ calls' = calls + 1
    /\ pc' = "idle"
    /\ args' = NoArgs
    /\ saved' = [mode |-> FALSE, dither_value |-> 0, pad_to_value |-> 0,
                 logging_level |-> "unbound", tmpdir |-> 0]
    /\ hypotheses' = <<>>
    /\ datalayer' = <<>>
    /\ pending_exc' = "none"
    /\ outcome' = [kind |-> "none", exc |-> "none", value |-> <<>>]
    /\ pre' = Snapshot
    /\ fwd_log' = {}
    /\ UNCHANGED <<model_vars, tmpdirs, dirs_created, fwd_vars, eval_vars, dirs_used,
                   dist_vars, mask_vars, strip_vars, beam_vars>>

Next ==
    \/ TranscribeBegin
    \/ TranscribeSetup
    \/ TranscribeManifest
    \/ SetupTranscribeDataloader
    \/ TranscribeBatch
    \/ TranscribeLoopEnd
    \/ TranscribeFinally
    \/ TranscribeAgain

Spec == Init /\ [][Next]_vars

---------------------------------------------------------------------------
(* Evaluation: validation_step, test_step, multi_validation_epoch_end *)

\* str.split(): the maximal runs of characters other than whitespace.
RECURSIVE SplitFrom(_, _, _)
SplitFrom(text, i, word) ==
    LET done == IF word = <<>> THEN <<>> ELSE <<word>>
    IN  IF i > Len(text) THEN done
        ELSE IF text[i] = " " THEN done \o SplitFrom(text, i + 1, <<>>)
        ELSE SplitFrom(text, i + 1, Append(word, text[i]))

Split(text) == SplitFrom(text, 1, <<>>)

\* g.strip() != ''
NonEmptyStripped(text) == \E i \in 1..Len(text) : text[i] # " "

\* editdistance.eval over two word lists (Levenshtein distance).
RECURSIVE EditDistance(_, _)
EditDistance(h, r) ==
    IF h = <<>> THEN Len(r)
    ELSE IF r = <<>> THEN Len(h)
    ELSE LET sub == EditDistance(Tail(h), Tail(r))
                      + (IF Head(h) = Head(r) THEN 0 ELSE 1)
             del == EditDistance(Tail(h), r) + 1
             ins == EditDistance(h, Tail(r)) + 1
         IN  Min(sub, Min(del, ins))

\* itertools.chain(*lists)
RECURSIVE Chain(_)
Chain(lists) == IF lists = <<>> THEN <<>> ELSE Head(lists) \o Chain(Tail(lists))

RECURSIVE SumSeq(_)
SumSeq(q) == IF q = <<>> THEN 0 ELSE Head(q) + SumSeq(Tail(q))

RECURSIVE FilterPairs(_)
FilterPairsKeepsAll(pairs) == pairs
FilterPairs(pairs) ==
    IF pairs = <<>> THEN <<>>
    ELSE (IF NonEmptyStripped(Head(pairs).g) THEN <<Head(pairs)>> ELSE <<>>)
            \o FilterPairs(Tail(pairs))

\* The batches a dataloader may yield, as the tokenizer reads them: the loss of
\* the batch, the number of its measurements (batch x time), the text of the
\* beam hypotheses and of the transcripts.
Batches ==
    { [loss |-> 1, num_measurements |-> 1,
       translations |-> << <<"a">> >>,
       ground_truths |-> << <<"<", "s", ">", "a">> >>],
      [loss |-> 3, num_measurements |-> 2,
       translations |-> << <<"<", "s", ">", "b">> >>,
       ground_truths |-> << <<"<", "s", ">">> >>] }

\* GlobalAverageLossMetric(take_avg_loss=True): update, compute, reset.  A loss
\* is the fraction num / den; den = 0 is NaN.
LossUpdate(metric, loss, num_measurements) ==
    [loss_sum |-> metric.loss_sum + loss * num_measurements,
     num_measurements |-> metric.num_measurements + num_measurements]
LossCompute(metric) == [num |-> metric.loss_sum, den |-> metric.num_measurements]
LossReset(metric) == [loss_sum |-> 0, num_measurements |-> 0]
IsNaN(loss) == loss.den = 0
SameLoss(a, b) == a.den # 0 /\ b.den # 0 /\ a.num * b.den = b.num * a.den

\* The output_dict of validation_step.
StepOutput(batch, mode) ==
    [mode |-> mode,
     loss |-> batch.loss,
     translations |-> [i \in 1..Len(batch.translations) |->
                          _strip_special_tokens(batch.translations[i])],
     ground_truths |-> [i \in 1..Len(batch.ground_truths) |->
                          _strip_special_tokens(batch.ground_truths[i])]]

\* Where validation_step puts its output_dict: the list of its dataloader when
\* trainer.val_dataloaders holds more than one, the flat list otherwise.
\* ok is FALSE when the index is out of range (IndexError).
AppendStepOutput(outputs, n_val_dataloaders, dataloader_idx, output_dict) ==
    IF n_val_dataloaders > 1
    THEN IF dataloader_idx \in DOMAIN outputs.lists
         THEN [ok |-> TRUE,
               outputs |-> [outputs EXCEPT
                              !.lists[dataloader_idx] = Append(@, output_dict)]]
         ELSE [ok |-> FALSE, outputs |-> outputs]
    ELSE [ok |-> TRUE, outputs |-> [outputs EXCEPT !.flat = Append(@, output_dict)]]

\* validation_step(batch, batch_idx, dataloader_idx, eval_mode): the loss goes
\* to val_loss, then the output is appended to self.validation_step_outputs.
validation_step(batch, dataloader_idx, mode) ==
    LET output_dict == StepOutput(batch, mode)
        app == AppendStepOutput(validation_step_outputs, num_val_dl,
                                dataloader_idx, output_dict)
    IN  /\ val_loss' = LossUpdate(val_loss, batch.loss, batch.num_measurements)
        /\ validation_step_outputs' = app.outputs
        /\ IF app.ok
           THEN /\ produced' = [produced EXCEPT ![dataloader_idx] =
                        Append(@, [output |-> output_dict,
                                   num_measurements |-> batch.num_measurements])]
                /\ UNCHANGED <<phase, step_error>>
           ELSE /\ step_error' = "IndexError"
                /\ phase' = "crashed"
                /\ UNCHANGED produced
        /\ UNCHANGED <<test_step_outputs, logged, resets, num_val_dl, num_test_dl,
                       eval_mode, cur_dl>>

NumDataloaders(mode) == IF mode = "val" THEN num_val_dl ELSE num_test_dl

EmptyOutputs(n) ==
    [flat |-> <<>>, lists |-> IF n > 1 THEN [d \in 0..(n - 1) |-> <<>>] ELSE <<>>]

\* The trainer starts a validation or a test epoch.
StartEpoch ==
    /\ phase = "idle"
    /\ \E mode \in {"val", "test"} :
        /\ eval_mode' = mode
        /\ produced' = [d \in 0..(NumDataloaders(mode) - 1) |-> <<>>]
    /\ phase' = "steps"
    /\ cur_dl' = 0
    /\ UNCHANGED <<model_vars, call_vars, fwd_vars, aux_vars, num_val_dl, num_test_dl,
                   validation_step_outputs, test_step_outputs, val_loss, logged,
                   resets, step_error>>

\* The trainer calls validation_step on the next batch of the current
\* validation dataloader.
ValidationStep ==
    /\ phase = "steps"
    /\ eval_mode = "val"
    /\ cur_dl < num_val_dl
    /\ Len(produced[cur_dl]) < MaxSteps
    /\ \E batch \in Batches : validation_step(batch, cur_dl, "val")
    /\ UNCHANGED <<model_vars, call_vars, fwd_vars, aux_vars>>

\* test_step: validation_step with eval_mode="test".
TestStep ==
    /\ phase = "steps"
    /\ eval_mode = "test"
    /\ cur_dl < num_test_dl
    /\ Len(produced[cur_dl]) < MaxSteps
    /\ \E batch \in Batches : validation_step(batch, cur_dl, "test")
    /\ UNCHANGED <<model_vars, call_vars, fwd_vars, aux_vars>>

\* The trainer goes on to the next dataloader; after the last, to the epoch
\* end hooks.
NextDataloader ==
    /\ phase = "steps"
    /\ cur_dl < NumDataloaders(eval_mode)
    /\ IF cur_dl + 1 = NumDataloaders(eval_mode)
       THEN phase' = "epoch_end" /\ cur_dl' = 0
       ELSE phase' = phase /\ cur_dl' = cur_dl + 1
    /\ UNCHANGED <<model_vars, call_vars, fwd_vars, aux_vars, num_val_dl, num_test_dl,
                   validation_step_outputs, test_step_outputs, val_loss, logged,
                   eval_mode, resets, produced, step_error>>

\* The pairs one worker hands to the gather: empty ground truths dropped.
LocalPairs(output) ==
    LET translations == Chain([i \in 1..Len(output) |-> output[i].translations])
        ground_truths == Chain([i \in 1..Len(output) |-> output[i].ground_truths])
        n == Min(Len(translations), Len(ground_truths))
    IN  FilterPairs([i \in 1..n |-> [t |-> translations[i], g |-> ground_truths[i]]])

\* What global rank 0 computes from the gathered pairs: the BLEU input and
\* scale, and the WER as a fraction; error when the references hold no word.
RankZeroMetricsUnscaled(tr_and_gt, world_size) ==
    LET pairs == Chain(tr_and_gt)
        wer_words == SumSeq([i \in 1..Len(pairs) |-> Len(Split(pairs[i].g))])
        wer_scores == SumSeq([i \in 1..Len(pairs) |->
                                EditDistance(Split(pairs[i].t), Split(pairs[i].g))])
    IN  [error |-> IF wer_words = 0 THEN "ZeroDivisionError" ELSE "none",
         sacreBLEU |-> [corpus |-> pairs, scale |-> 1],
         WER |-> [num |-> wer_scores, den |-> wer_words]]
RankZeroMetrics(tr_and_gt, world_size) ==
    LET pairs == Chain(tr_and_gt)
        wer_words == SumSeq([i \in 1..Len(pairs) |-> Len(Split(pairs[i].g))])
        wer_scores == SumSeq([i \in 1..Len(pairs) |->
                                EditDistance(Split(pairs[i].t), Split(pairs[i].g))])
    IN  [error |-> IF wer_words = 0 THEN "ZeroDivisionError" ELSE "none",
         sacreBLEU |-> [corpus |-> pairs, scale |-> world_size],
         WER |-> [num |-> wer_scores * world_size, den |-> wer_words]]

\* val_loss once the body of the loop of multi_validation_epoch_end has run.
LossAfterEpochEndKept(metric) == metric
LossAfterEpochEnd(metric) == LossReset(metric)

\* multi_validation_epoch_end(outputs, dataloader_idx, eval_mode) on a single
\* worker (world_size 1, global rank 0).  outputs is a list of output dicts,
\* which the method wraps into a list of one list.
multi_validation_epoch_end(outputs, dataloader_idx, mode) ==
    IF outputs = <<>>
    THEN UNCHANGED <<val_loss, logged, resets, step_error>>
    ELSE LET eval_loss == LossCompute(val_loss)
             m == RankZeroMetrics(<<LocalPairs(outputs)>>, 1)
         IN  IF m.error # "none"
             THEN /\ step_error' = m.error
                  /\ UNCHANGED <<val_loss, logged, resets>>
             ELSE /\ logged' = Append(logged,
                                  [dataloader_idx |-> dataloader_idx, mode |-> mode,
                                   loss |-> eval_loss, sacreBLEU |-> m.sacreBLEU,
                                   WER |-> m.WER])
                  /\ val_loss' = LossAfterEpochEnd(val_loss)
                  /\ resets' = resets + 1
                  /\ UNCHANGED step_error

\* The step outputs the trainer hands to the epoch end hook of a dataloader.
OutputsOf(outputs, n, d) == IF n > 1 THEN outputs.lists[d] ELSE outputs.flat
ClearOutputs(outputs, n, d) ==
    IF n > 1 THEN [outputs EXCEPT !.lists[d] = <<>>] ELSE [outputs EXCEPT !.flat = <<>>]

\* on_validation_epoch_end: multi_validation_epoch_end for the current
\* dataloader, its outputs cleared afterwards.
ValidationEpochEnd ==
    /\ phase = "epoch_end"
    /\ eval_mode = "val"
    /\ multi_validation_epoch_end(
           OutputsOf(validation_step_outputs, num_val_dl, cur_dl), cur_dl, "val")
    /\ validation_step_outputs' =
           ClearOutputs(validation_step_outputs, num_val_dl, cur_dl)
    /\ cur_dl' = cur_dl + 1
    /\ phase' = IF step_error' # "none" THEN "crashed"
                ELSE IF cur_dl + 1 = num_val_dl THEN "finished" ELSE phase
    /\ UNCHANGED <<model_vars, call_vars, fwd_vars, aux_vars, num_val_dl, num_test_dl,
                   test_step_outputs, eval_mode, produced>>

\* on_test_epoch_end: multi_test_epoch_end, which is
\* multi_validation_epoch_end with eval_mode="test", on self.test_step_outputs.
TestEpochEnd ==
    /\ phase = "epoch_end"
    /\ eval_mode = "test"
    /\ multi_validation_epoch_end(
           OutputsOf(test_step_outputs, num_test_dl, cur_dl), cur_dl, "test")
    /\ test_step_outputs' = ClearOutputs(test_step_outputs, num_test_dl, cur_dl)
    /\ cur_dl' = cur_dl + 1
    /\ phase' = IF step_error' # "none" THEN "crashed"
                ELSE IF cur_dl + 1 = num_test_dl THEN "finished" ELSE phase
    /\ UNCHANGED <<model_vars, call_vars, fwd_vars, aux_vars, num_val_dl, num_test_dl,
                   validation_step_outputs, eval_mode, produced>>

\* A model in evaluation mode with its dataloaders set up and nothing
\* accumulated.
InitEval ==
    /\ training = FALSE
    /\ dither = 0
    /\ pad_to = 0
    /\ encoder_frozen = FALSE
    /\ decoder_frozen = FALSE
    /\ verbosity = "INFO"
    /\ spec_augmentation = FALSE
    /\ CallIdle
    /\ FwdIdle
    /\ num_val_dl \in 1..MaxDL
    /\ num_test_dl \in 1..MaxDL
    /\ validation_step_outputs = EmptyOutputs(num_val_dl)
    /\ test_step_outputs = EmptyOutputs(num_test_dl)
    /\ val_loss = [loss_sum |-> 0, num_measurements |-> 0]
    /\ logged = <<>>
    /\ phase = "idle"
    /\ eval_mode = "val"
    /\ cur_dl = 0
    /\ resets = 0
    /\ produced = <<>>
    /\ step_error = "none"
    /\ XCallIdle /\ DistIdle /\ MaskIdle /\ StripIdle /\ BeamIdle

NextEval ==
    \/ StartEpoch
    \/ ValidationStep
    \/ TestStep
    \/ NextDataloader
    \/ ValidationEpochEnd
    \/ TestEpochEnd

SpecEval == InitEval /\ [][NextEval]_vars

---------------------------------------------------------------------------
(* multi_validation_epoch_end of one dataloader on world_size workers *)

\* Batches as the tokenizer reads them: three pairs of which the first and the
\* third have an empty ground truth after trimming; one exact pair; one pair
\* whose ground truth is a special token only.
DistBatchMixed ==
    [loss |-> 2, num_measurements |-> 3,
     translations |-> << <<"c">>, <<"a", " ", "d">>, <<"b">> >>,
     ground_truths |-> << <<>>, <<"a", " ", "b">>, <<" ", " ">> >>]
DistBatchExact ==
    [loss |-> 1, num_measurements |-> 1,
     translations |-> << <<"a">> >>,
     ground_truths |-> << <<"<", "s", ">", "a">> >>]
DistBatchNoReference ==
    [loss |-> 3, num_measurements |-> 1,
     translations |-> << <<"b">> >>,
     ground_truths |-> << <<"<", "s", ">">> >>]

\* The step outputs a worker may hold for the dataloader at the epoch end.
WorkerBatches ==
    { <<>>, <<DistBatchMixed>>, <<DistBatchExact>>, <<DistBatchNoReference>>,
      <<DistBatchExact, DistBatchMixed>> }

Ranks == 0..(w_world_size - 1)

\* "if self.world_size > 1: dist.all_gather_object(...)"
UsesAllGatherAlways(world_size) == TRUE
UsesAllGather(world_size) == world_size > 1

\* What a worker other than global rank 0 reports for BLEU and WER: 0.0.
ZeroMetrics ==
    [error |-> "none",
     sacreBLEU |-> [corpus |-> <<>>, scale |-> 0],
     WER |-> [num |-> 0, den |-> 1]]

InitDist ==
    /\ training = FALSE
    /\ dither = 0
    /\ pad_to = 0
    /\ encoder_frozen = FALSE
    /\ decoder_frozen = FALSE
    /\ verbosity = "INFO"
    /\ spec_augmentation = FALSE
    /\ CallIdle /\ FwdIdle /\ EvalIdle
    /\ XCallIdle /\ MaskIdle /\ StripIdle /\ BeamIdle
    /\ w_world_size \in 1..MaxWorld
    /\ \E b \in [Ranks -> WorkerBatches] :
        /\ w_outputs = [r \in Ranks |->
                          [i \in 1..Len(b[r]) |-> StepOutput(b[r][i], "val")]]
        /\ w_val_loss = [r \in Ranks |->
                          [loss_sum |-> SumSeq([i \in 1..Len(b[r]) |->
                                       b[r][i].loss * b[r][i].num_measurements]),
                           num_measurements |-> SumSeq([i \in 1..Len(b[r]) |->
                                       b[r][i].num_measurements])]]
    /\ w_pc = [r \in Ranks |-> "start"]
    /\ gather_buf = [r \in Ranks |-> [present |-> FALSE, pairs |-> <<>>]]
    /\ w_tr_and_gt = [r \in Ranks |-> <<>>]
    /\ w_reported = [r \in Ranks |-> <<>>]
    /\ w_collectives = [r \in Ranks |-> 0]

\* Rank r enters multi_validation_epoch_end: the early return on empty outputs,
\* else the local pairs, handed to all_gather_object or put into tr_and_gt[0].
EpochEndEnter(r) ==
    /\ w_pc[r] = "start"
    /\ IF w_outputs[r] = <<>>
       THEN /\ w_pc' = [w_pc EXCEPT ![r] = "returned"]
            /\ UNCHANGED <<gather_buf, w_tr_and_gt, w_collectives>>
       ELSE IF UsesAllGather(w_world_size)
       THEN /\ gather_buf' = [gather_buf EXCEPT ![r] =
                                [present |-> TRUE, pairs |-> LocalPairs(w_outputs[r])]]
            /\ w_collectives' = [w_collectives EXCEPT ![r] = @ + 1]
            /\ w_pc' = [w_pc EXCEPT ![r] = "all_gather"]
            /\ UNCHANGED w_tr_and_gt
       ELSE /\ w_tr_and_gt' = [w_tr_and_gt EXCEPT ![r] = <<LocalPairs(w_outputs[r])>>]
            /\ w_pc' = [w_pc EXCEPT ![r] = "gathered"]
            /\ UNCHANGED <<gather_buf, w_collectives>>
    /\ UNCHANGED <<model_vars, call_vars, fwd_vars, eval_vars, w_world_size,
                   w_outputs, w_val_loss, w_reported, xcall_vars, mask_vars,
                   strip_vars, beam_vars>>

\* all_gather_object returns, on every rank at once, when every rank has
\* entered it: each gets the payloads of all ranks in rank order.
AllGatherComplete ==
    /\ \A r \in Ranks : w_pc[r] = "all_gather"
    /\ w_tr_and_gt' = [r \in Ranks |->
                          [k \in 1..w_world_size |-> gather_buf[k - 1].pairs]]
    /\ w_pc' = [r \in Ranks |-> "gathered"]
    /\ UNCHANGED <<model_vars, call_vars, fwd_vars, eval_vars, w_world_size,
                   w_outputs, w_val_loss, gather_buf, w_reported, w_collectives,
                   xcall_vars, mask_vars, strip_vars, beam_vars>>

\* Rank r goes on after the gather: the metrics (on global rank 0) or zeros,
\* the three self.log calls, and the reset of val_loss.
EpochEndFinish(r) ==
    /\ w_pc[r] = "gathered"
    /\ LET eval_loss == LossCompute(w_val_loss[r])
           m == IF r = 0 THEN RankZeroMetrics(w_tr_and_gt[r], w_world_size)
                ELSE ZeroMetrics
       IN  IF m.error # "none"
           THEN /\ w_pc' = [w_pc EXCEPT ![r] = "crashed"]
                /\ UNCHANGED <<w_reported, w_val_loss>>
           ELSE /\ w_reported' = [w_reported EXCEPT ![r] =
                                   <<[loss |-> eval_loss, sacreBLEU |-> m.sacreBLEU,
                                      WER |-> m.WER]>>]
                /\ w_val_loss' = [w_val_loss EXCEPT ![r] = LossAfterEpochEnd(@)]
                /\ w_pc' = [w_pc EXCEPT ![r] = "done"]
    /\ UNCHANGED <<model_vars, call_vars, fwd_vars, eval_vars, w_world_size,
                   w_outputs, gather_buf, w_tr_and_gt, w_collectives, xcall_vars,
                   mask_vars, strip_vars, beam_vars>>

NextDist ==
    \/ \E r \in Ranks : EpochEndEnter(r)
    \/ AllGatherComplete
    \/ \E r \in Ranks : EpochEndFinish(r)

SpecDist == InitDist /\ [][NextDist]_vars

---------------------------------------------------------------------------
(* lens_to_mask *)

\* torch.arange(n): 0, 1, ..., n - 1
Arange(n) == [t \in 1..n |-> t - 1]

\* row.repeat(batch_size, 1): batch_size copies of the row
Repeat(row, batch_size) == [i \in 1..batch_size |-> row]

\* grid < lens[:, None]: each row of the grid compared with the length of
\* that row
BroadcastLessEq(grid, lens) ==
    [i \in 1..Len(grid) |-> [t \in 1..Len(grid[i]) |-> grid[i][t] <= lens[i]]]
BroadcastLess(grid, lens) ==
    [i \in 1..Len(grid) |-> [t \in 1..Len(grid[i]) |-> grid[i][t] < lens[i]]]

lens_to_mask(lens, max_length) ==
    LET batch_size == Len(lens)
    IN  BroadcastLess(Repeat(Arange(max_length), batch_size), lens)

\* Any vector of lengths and any max_length; m_mask is empty until the call
\* and holds the returned mask after it.
InitMask ==
    /\ training = FALSE
    /\ dither = 0
    /\ pad_to = 0
    /\ encoder_frozen = FALSE
    /\ decoder_frozen = FALSE
    /\ verbosity = "INFO"
    /\ spec_augmentation = FALSE
    /\ CallIdle /\ FwdIdle /\ EvalIdle
    /\ XCallIdle /\ DistIdle /\ StripIdle /\ BeamIdle
    /\ \E b \in 0..MaxMaskBatch : m_lens \in [1..b -> 0..MaxLen]
    /\ m_max_length \in 0..MaxT
    /\ m_mask = <<>>

LensToMaskCall ==
    /\ m_mask = <<>>
    /\ m_mask' = <<lens_to_mask(m_lens, m_max_length)>>
    /\ UNCHANGED <<model_vars, call_vars, fwd_vars, eval_vars, m_lens, m_max_length,
                   xcall_vars, dist_vars, strip_vars, beam_vars>>

NextMask == LensToMaskCall

SpecMask == InitMask /\ [][NextMask]_vars

---------------------------------------------------------------------------
(* _strip_special_tokens applied to a text, and to its own result *)

StripAlphabet == {"<", ">", "a", "b"}

\* Any text over the alphabet; s_stripped collects the result of the call on
\* s_text and then the result of the call on that result.
InitStrip ==
    /\ training = FALSE
    /\ dither = 0
    /\ pad_to = 0
    /\ encoder_frozen = FALSE
    /\ decoder_frozen = FALSE
    /\ verbosity = "INFO"
    /\ spec_augmentation = FALSE
    /\ CallIdle /\ FwdIdle /\ EvalIdle
    /\ XCallIdle /\ DistIdle /\ MaskIdle /\ BeamIdle
    /\ \E n \in 0..MaxTextLen : s_text \in [1..n -> StripAlphabet]
    /\ s_stripped = <<>>

StripCall ==
    /\ s_stripped = <<>>
    /\ s_stripped' = <<_strip_special_tokens(s_text)>>
    /\ UNCHANGED <<model_vars, call_vars, fwd_vars, eval_vars, s_text, xcall_vars,
                   dist_vars, mask_vars, beam_vars>>

StripAgain ==
    /\ Len(s_stripped) = 1
    /\ s_stripped' = Append(s_stripped, _strip_special_tokens(s_stripped[1]))
    /\ UNCHANGED <<model_vars, call_vars, fwd_vars, eval_vars, s_text, xcall_vars,
                   dist_vars, mask_vars, beam_vars>>

NextStrip ==
    \/ StripCall
    \/ StripAgain

SpecStrip == InitStrip /\ [][NextStrip]_vars

---------------------------------------------------------------------------
(* The beam search generator: construction in __init__, and one run *)

\* The length arguments and the beam size __init__ gives
\* BeamSearchSequenceGenerator.
BeamSearchArgsDeltaFromBeamSize(config) ==
    [max_sequence_length |-> config.decoder_max_sequence_length,
     max_delta_length |-> config.decoder_max_sequence_length + config.beam_size,
     beam_size |-> config.beam_size]
BeamSearchArgs(config) ==
    [max_sequence_length |-> config.decoder_max_sequence_length,
     max_delta_length |-> config.max_generation_delta,
     beam_size |-> config.beam_size]

\* The length at which the generator stops whatever the beams hold:
\* max_sequence_length, or max_sequence_length + max_delta_length.
LengthLimits(generator) ==
    {generator.max_sequence_length,
     generator.max_sequence_length + generator.max_delta_length}

InitBeam ==
    /\ training = FALSE
    /\ dither = 0
    /\ pad_to = 0
    /\ encoder_frozen = FALSE
    /\ decoder_frozen = FALSE
    /\ verbosity = "INFO"
    /\ spec_augmentation = FALSE
    /\ CallIdle /\ FwdIdle /\ EvalIdle
    /\ XCallIdle /\ DistIdle /\ MaskIdle /\ StripIdle
    /\ beam_cfg \in [decoder_max_sequence_length : 1..MaxSeqLen,
                     max_generation_delta : 0..MaxDelta,
                     beam_size : 1..MaxBeam]
    /\ beam = [pc |-> "idle", max_sequence_length |-> 0, max_delta_length |-> 0,
               beam_size |-> 0, limit |-> 0, steps |-> 0, finished |-> 0]

\* __init__: self.beam_search = BeamSearchSequenceGenerator(...)
BuildBeamSearch ==
    /\ beam.pc = "idle"
    /\ beam' = [beam EXCEPT !.pc = "built",
                     !.max_sequence_length = BeamSearchArgs(beam_cfg).max_sequence_length,
                     !.max_delta_length = BeamSearchArgs(beam_cfg).max_delta_length,
                     !.beam_size = BeamSearchArgs(beam_cfg).beam_size]
    /\ UNCHANGED <<model_vars, call_vars, fwd_vars, eval_vars, beam_cfg, xcall_vars,
                   dist_vars, mask_vars, strip_vars>>

\* A run starts: no step taken, no beam finished, the length limit fixed.
BeamSearchStart ==
    /\ beam.pc = "built"
    /\ \E limit \in LengthLimits(beam) :
          beam' = [beam EXCEPT !.pc = "search", !.limit = limit]
    /\ UNCHANGED <<model_vars, call_vars, fwd_vars, eval_vars, beam_cfg, xcall_vars,
                   dist_vars, mask_vars, strip_vars>>

\* One generation step: each unfinished beam emits end-of-sequence or does
\* not; the finished beams stay finished.
BeamSearchStep ==
    /\ beam.pc = "search"
    /\ beam.finished < beam.beam_size
    /\ beam.steps < beam.limit
    /\ \E finished \in beam.finished..beam.beam_size :
          beam' = [beam EXCEPT !.steps = @ + 1, !.finished = finished]
    /\ UNCHANGED <<model_vars, call_vars, fwd_vars, eval_vars, beam_cfg, xcall_vars,
                   dist_vars, mask_vars, strip_vars>>

\* The run ends: every beam is finished, or the length limit is reached.
BeamSearchStop ==
    /\ beam.pc = "search"
    /\ beam.finished = beam.beam_size \/ beam.steps = beam.limit
    /\ beam' = [beam EXCEPT !.pc = "done"]
    /\ UNCHANGED <<model_vars, call_vars, fwd_vars, eval_vars, beam_cfg, xcall_vars,
                   dist_vars, mask_vars, strip_vars>>

NextBeam ==
    \/ BuildBeamSearch
    \/ BeamSearchStart
    \/ BeamSearchStep
    \/ BeamSearchStop

SpecBeam == InitBeam /\ [][NextBeam]_vars

---------------------------------------------------------------------------
(* A direct call of forward, with any combination of arguments given *)

ForwardArgs == [input_signal : BOOLEAN, input_signal_length : BOOLEAN,
                processed_signal : BOOLEAN, processed_signal_length : BOOLEAN,
                transcript : BOOLEAN]

InitForward ==
    /\ training \in BOOLEAN
    /\ spec_augmentation \in BOOLEAN
    /\ dither = 0
    /\ pad_to = 0
    /\ encoder_frozen = FALSE
    /\ decoder_frozen = FALSE
    /\ verbosity = "INFO"
    /\ CallIdle
    /\ EvalIdle
    /\ fwd_args \in ForwardArgs
    /\ fwd_result = NotCalled
    /\ XCallIdle /\ DistIdle /\ MaskIdle /\ StripIdle /\ BeamIdle

ForwardCall ==
    /\ fwd_result = NotCalled
    /\ fwd_result' = forward(fwd_args, training, spec_augmentation)
    /\ UNCHANGED <<model_vars, call_vars, fwd_args, eval_vars, aux_vars>>

NextForward == ForwardCall

SpecForward == InitForward /\ [][NextForward]_vars

---------------------------------------------------------------------------
(* Claims about transcribe and forward *)

TranscribeExited == pc = "done"

\* C1: after transcribe has exited, by a return or by an exception raised while
\* a batch was processed, the training flag, dither and pad_to are what they
\* were when it was called.
C1_ModeAndAugmentationRestored ==
    TranscribeExited =>
        /\ training = pre.training
        /\ dither = pre.dither
        /\ pad_to = pre.pad_to

\* A call in training mode with dither and pad_to set, one file per batch,
\* that threw at the second file of three.
C1_Witness ==
    /\ TranscribeExited
    /\ outcome = Raised("RuntimeError")
    /\ Len(args.paths2audio_files) = 3
    /\ args.batch_size = 1
    /\ Len(hypotheses) = 1
    /\ pre.training
    /\ pre.dither # 0
    /\ pre.pad_to # 0

\* C2: after transcribe has exited, the encoder and the decoder are frozen
\* exactly if they were frozen when it was called.
C2_FreezeStateRestored ==
    TranscribeExited =>
        /\ encoder_frozen = pre.encoder_frozen
        /\ decoder_frozen = pre.decoder_frozen

\* C3: an exception raised inside the try block reaches the caller unchanged,
\* and only after the finally block has put back what it saved; no result is
\* returned in its place.
C3_ExceptionPropagatesAfterCleanup ==
    pending_exc # "none" =>
        IF TranscribeExited
        THEN /\ outcome = Raised(pending_exc)
             /\ training = saved.mode
             /\ dither = saved.dither_value
             /\ pad_to = saved.pad_to_value
             /\ saved.mode => (~encoder_frozen /\ ~decoder_frozen)
        ELSE outcome.kind = "none"

\* The second batch of two raised, in a model that was training.
C3_Witness ==
    /\ TranscribeExited
    /\ pending_exc = "RuntimeError"
    /\ outcome.kind = "raised"
    /\ Len(hypotheses) = 2
    /\ Len(args.paths2audio_files) = 3
    /\ saved.mode
    /\ saved.dither_value # 0

\* C5: a call with a non-empty list of paths and not both flags set, in which
\* nothing outside transcribe failed, returns one result per file, in input
\* order.
C5_OneResultPerFileInOrder ==
    ( /\ TranscribeExited
      /\ args.paths2audio_files # <<>>
      /\ ~(args.logprobs /\ args.return_hypotheses)
      /\ pending_exc # "RuntimeError" ) =>
        /\ outcome.kind = "returned"
        /\ Len(outcome.value) = Len(args.paths2audio_files)
        /\ \A i \in 1..Len(outcome.value) :
               outcome.value[i].file = args.paths2audio_files[i]

\* C6 as claimed: every call with logprobs and return_hypotheses both set ends
\* in ValueError with nothing changed.
C6_ConflictingFlagsAlwaysRejected ==
    (TranscribeExited /\ args.logprobs /\ args.return_hypotheses) =>
        /\ outcome = Raised("ValueError")
        /\ Snapshot = pre
        /\ tmpdirs = {}

\* C6, amended: a call with a non-empty list of paths and with logprobs and
\* return_hypotheses both set ends in ValueError, and at no point of it is the
\* training flag, dither, pad_to or the freeze state changed or a temporary
\* directory created.
C6_ConflictingFlagsRejectedForNonEmptyPaths ==
    ( /\ pc # "idle"
      /\ args.paths2audio_files # <<>>
      /\ args.logprobs /\ args.return_hypotheses ) =>
        /\ TranscribeExited
        /\ outcome = Raised("ValueError")
        /\ Snapshot = pre
        /\ tmpdirs = {}

\* Two files, both flags set, in a training model with augmentation parameters
\* set: ValueError.
C6_Witness ==
    /\ TranscribeExited
    /\ Len(args.paths2audio_files) = 2
    /\ args.logprobs /\ args.return_hypotheses
    /\ outcome = Raised("ValueError")
    /\ training /\ dither # 0 /\ pad_to # 0
    /\ ~encoder_frozen /\ ~decoder_frozen

\* C7: with logprobs and return_hypotheses false, no returned string has a
\* substring matching <...>.
C7_NoSpecialTokensInTranscriptions ==
    ( /\ TranscribeExited
      /\ outcome.kind = "returned"
      /\ ~args.logprobs /\ ~args.return_hypotheses ) =>
        \A i \in 1..Len(outcome.value) : ~HasSpecialToken(outcome.value[i].text)

\* C4: forward raises ValueError when both pairs are given and when neither is;
\* it goes on exactly when one pair is given.
C4_ForwardNeedsExactlyOnePair ==
    fwd_result # NotCalled =>
        LET raw == fwd_args.input_signal /\ fwd_args.input_signal_length
            processed == fwd_args.processed_signal
                            /\ fwd_args.processed_signal_length
        IN  /\ (raw /\ processed) => fwd_result.raised = "ValueError"
            /\ (~raw /\ ~processed) => fwd_result.raised = "ValueError"
            /\ (fwd_result.raised = "none") <=> (raw # processed)

\* forward was called with neither pair complete (a signal without its length)
\* and raised.
C4_Witness ==
    /\ fwd_result.raised = "ValueError"
    /\ fwd_args.input_signal /\ ~fwd_args.input_signal_length
    /\ ~fwd_args.processed_signal /\ ~fwd_args.processed_signal_length

---------------------------------------------------------------------------
(* Claims about the evaluation steps and the epoch end *)

\* Whether every dataloader d of the running epoch finds exactly the outputs
\* of its own steps in the entry of index d of the accumulator `outputs`, which
\* is nested when it was set up for n > 1 dataloaders.
ProducedOutputs(d) == [i \in 1..Len(produced[d]) |-> produced[d][i].output]

KeyedByDataloader(outputs, n) ==
    \A d \in DOMAIN produced :
        IF n > 1
        THEN d \in DOMAIN outputs.lists /\ outputs.lists[d] = ProducedOutputs(d)
        ELSE outputs.flat = ProducedOutputs(d)

\* C8: while the steps of an epoch run, the accumulator entry of each
\* dataloader holds the outputs of that dataloader's steps and no others, in a
\* validation epoch and in a test epoch alike (for a test epoch: in the test
\* accumulator, or else in entries of the validation accumulator).
C8_StepOutputsKeyedByOwnDataloader ==
    phase = "steps" =>
        IF eval_mode = "val"
        THEN KeyedByDataloader(validation_step_outputs, num_val_dl)
        ELSE \/ KeyedByDataloader(test_step_outputs, num_test_dl)
             \/ KeyedByDataloader(validation_step_outputs, num_val_dl)

\* C9: when an evaluation epoch is over, val_loss has been reset exactly once
\* in it and holds no measurement.
C9_LossResetExactlyOncePerEpoch ==
    phase = "finished" =>
        /\ resets = 1
        /\ val_loss.num_measurements = 0

\* The loss of the steps of one dataloader alone.
OwnLoss(outs) ==
    [num |-> SumSeq([i \in 1..Len(outs) |->
                        outs[i].output.loss * outs[i].num_measurements]),
     den |-> SumSeq([i \in 1..Len(outs) |-> outs[i].num_measurements])]

\* The loss of the steps of all dataloaders of the epoch together.
PooledLoss ==
    LET own == [i \in 1..NumDataloaders(eval_mode) |-> OwnLoss(produced[i - 1])]
    IN  [num |-> SumSeq([i \in 1..Len(own) |-> own[i].num]),
         den |-> SumSeq([i \in 1..Len(own) |-> own[i].den])]

SeveralValidationDataloaders == eval_mode = "val" /\ num_val_dl > 1

\* C10 as claimed: once the epoch end hook has reported a loss for every one of
\* several validation dataloaders, the last one got its own loss and every
\* other one got NaN or a loss that is not its own.
C10_LastDataloaderGetsItsOwnLoss ==
    ( /\ SeveralValidationDataloaders
      /\ phase = "finished"
      /\ Len(logged) = num_val_dl ) =>
        /\ SameLoss(logged[num_val_dl].loss, OwnLoss(produced[num_val_dl - 1]))
        /\ \A i \in 1..(num_val_dl - 1) :
               \/ IsNaN(logged[i].loss)
               \/ ~SameLoss(logged[i].loss, OwnLoss(produced[i - 1]))

\* C10, amended: with several validation dataloaders, the first loss reported
\* at the epoch end is the loss of the steps of all dataloaders pooled, and
\* every loss reported after it is NaN.
C10_FirstGetsPooledLossLaterGetNaN ==
    (SeveralValidationDataloaders /\ phase \in {"epoch_end", "finished", "crashed"}) =>
        \A i \in 1..Len(logged) :
            IF i = 1 THEN logged[i].loss = PooledLoss
            ELSE IsNaN(logged[i].loss)

\* Two validation dataloaders, both reported: the first got the pooled loss,
\* which is not its own, and the second, the last, got NaN.
C10_Witness ==
    /\ SeveralValidationDataloaders
    /\ phase = "finished"
    /\ Len(logged) = 2
    /\ logged[1].dataloader_idx = 0
    /\ logged[2].dataloader_idx = 1
    /\ ~IsNaN(logged[1].loss)
    /\ ~SameLoss(logged[1].loss, OwnLoss(produced[0]))
    /\ IsNaN(logged[2].loss)
    /\ ~IsNaN(OwnLoss(produced[1]))


---------------------------------------------------------------------------
(* Aggregation of the metrics over the workers *)

\* The (translation, ground truth) pairs of rank r's step outputs, as stored.
RawPairs(r) ==
    LET translations == Chain([i \in 1..Len(w_outputs[r]) |-> w_outputs[r][i].translations])
        ground_truths == Chain([i \in 1..Len(w_outputs[r]) |-> w_outputs[r][i].ground_truths])
    IN  [i \in 1..Len(ground_truths) |-> [t |-> translations[i], g |-> ground_truths[i]]]

HasReference(pair) == \E i \in 1..Len(pair.g) : pair.g[i] # " "

\* The pairs of rank r whose ground truth is not empty after trimming.
ExpectedPairs(r) == SelectSeq(RawPairs(r), HasReference)

\* Those pairs of all workers, concatenated in rank order.
ExpectedCorpus == Chain([k \in 1..w_world_size |-> ExpectedPairs(k - 1)])

\* The WER one worker holding ExpectedCorpus would compute.
SingleWorkerWER ==
    [num |-> SumSeq([i \in 1..Len(ExpectedCorpus) |->
                EditDistance(Split(ExpectedCorpus[i].t), Split(ExpectedCorpus[i].g))]),
     den |-> SumSeq([i \in 1..Len(ExpectedCorpus) |-> Len(Split(ExpectedCorpus[i].g))])]

AllReported == \A r \in Ranks : w_reported[r] # <<>>

\* The average over the workers of the WER each reported, as a fraction (the
\* workers other than rank 0 report over the denominator 1).
AverageReportedWER ==
    LET zero == w_reported[0][1].WER
        others == SumSeq([k \in 1..(w_world_size - 1) |-> w_reported[k][1].WER.num])
    IN  [num |-> zero.num + others * zero.den, den |-> zero.den * w_world_size]

\* C11: a worker other than rank 0 reports exactly 0 for BLEU and WER, rank 0
\* reports the corpus value over the rank-ordered concatenation times the
\* world size, and once every worker has reported the average of the reported
\* WER over the workers is the WER of a single worker over that concatenation.
C11_AverageOfReportedIsCorpusMetric ==
    /\ \A r \in Ranks : w_reported[r] # <<>> /\ r # 0 =>
          /\ w_reported[r][1].sacreBLEU.scale = 0
          /\ w_reported[r][1].WER.num = 0
    /\ w_world_size >= 1 /\ w_reported[0] # <<>> =>
          /\ w_reported[0][1].sacreBLEU = [corpus |-> ExpectedCorpus, scale |-> w_world_size]
          /\ w_reported[0][1].WER.num * SingleWorkerWER.den
                = SingleWorkerWER.num * w_world_size * w_reported[0][1].WER.den
    /\ AllReported =>
          AverageReportedWER.num * SingleWorkerWER.den
                = SingleWorkerWER.num * AverageReportedWER.den

C11_Witness ==
    /\ w_world_size > 1
    /\ AllReported
    /\ w_reported[0][1].WER.num > 0
    /\ \E r \in Ranks : r # 0 /\ Len(ExpectedPairs(r)) > 0

\* C12: on every worker, what is handed to the gather (or used directly) is
\* exactly the pairs whose ground truth is not empty after trimming, each once
\* and with its own hypothesis, in order; the metrics are computed from those.
C12_EmptyReferencesExcludedBeforeGather ==
    \A r \in Ranks :
        /\ gather_buf[r].present => gather_buf[r].pairs = ExpectedPairs(r)
        /\ w_pc[r] \in {"gathered", "done", "crashed"} =>
              Chain(w_tr_and_gt[r]) = ExpectedCorpus
        /\ r = 0 /\ w_reported[r] # <<>> =>
              w_reported[r][1].sacreBLEU.corpus = ExpectedCorpus

\* Ground truths "", "a b", "  " with hypotheses "c", "a d", "b": only the
\* pair ("a d", "a b") is handed to the gather.
C12_Witness ==
    \E r \in Ranks :
        /\ [i \in 1..Len(RawPairs(r)) |-> RawPairs(r)[i].g]
              = << <<>>, <<"a", " ", "b">>, <<" ", " ">> >>
        /\ [i \in 1..Len(RawPairs(r)) |-> RawPairs(r)[i].t]
              = << <<"c">>, <<"a", " ", "d">>, <<"b">> >>
        /\ gather_buf[r].present
        /\ gather_buf[r].pairs = << [t |-> <<"a", " ", "d">>, g |-> <<"a", " ", "b">>] >>

PastGather(r) == w_pc[r] \in {"gathered", "done", "crashed"}

\* C13: with world size 1 no collective is called and the local pairs are
\* used directly; with a larger world size the pairs are gathered with one
\* all_gather_object call per worker.
C13_NoCollectiveOnSingleWorker ==
    \A r \in Ranks :
        /\ w_world_size = 1 =>
              /\ w_collectives[r] = 0
              /\ PastGather(r) => w_tr_and_gt[r] = <<LocalPairs(w_outputs[r])>>
        /\ w_world_size > 1 /\ PastGather(r) =>
              /\ w_collectives[r] = 1
              /\ w_tr_and_gt[r] = [k \in 1..w_world_size |-> gather_buf[k - 1].pairs]

C13_Witness ==
    /\ w_world_size = 1
    /\ w_pc[0] = "done"
    /\ w_collectives[0] = 0
    /\ w_reported[0][1].sacreBLEU.corpus # <<>>

EnteredGather(r) == w_collectives[r] > 0
ReturnedEarly(r) == w_pc[r] = "returned"

\* C19: with world size above 1, either every worker enters the all-gather
\* or none does: no worker is in the all-gather while another has returned
\* from the epoch-end handler without entering it.
C19_AllWorkersEnterGatherOrNone ==
    w_world_size > 1 =>
        ~ \E r, q \in Ranks : EnteredGather(r) /\ ReturnedEarly(q)

\* C20: whenever the outputs of rank 0 are not empty, the epoch-end handler
\* on rank 0 runs to completion (three metrics logged, loss reset): it never
\* ends by an exception, also when every ground truth is empty after trimming.
C20_RankZeroCompletesOnNonEmptyOutputs ==
    w_outputs[0] # <<>> => w_pc[0] # "crashed"

---------------------------------------------------------------------------
(* The state of the model at the forward calls of transcribe *)

\* C18: every forward (and beam search) call of transcribe is made with
\* dither 0, pad_to 0, the model in evaluation mode and encoder and decoder
\* frozen, and none of these forward calls applies spec augmentation.
C18_ForwardRunsInInferenceState ==
    \A seen \in fwd_log :
        /\ seen.dither = 0
        /\ seen.pad_to = 0
        /\ ~seen.training
        /\ seen.encoder_frozen
        /\ seen.decoder_frozen
        /\ ~seen.augmented

C18_Witness ==
    /\ fwd_log # {}
    /\ pre.training
    /\ spec_augmentation
    /\ pre.dither # 0
    /\ pre.pad_to # 0
    /\ ~pre.encoder_frozen
    /\ ~pre.decoder_frozen

---------------------------------------------------------------------------
(* The temporary manifest directory of transcribe *)

\* C14: the temporary directory exists while the dataloader is built and
\* read, no two calls of transcribe use the same directory, and on every way
\* out of the with block, an exception from building the dataloader or from a
\* batch included, no temporary directory is left.
C14_TempDirPrivateAndRemoved ==
    /\ pc \in {"dataloader", "loop"} =>
          /\ saved.tmpdir \in tmpdirs
          /\ [call |-> calls, dir |-> saved.tmpdir] \in dirs_used
    /\ pc \in {"finally", "done"} => tmpdirs = {}
    /\ \A x, y \in dirs_used : x.dir = y.dir => x.call = y.call

\* A second call that ended by the exception raised while its dataloader was
\* built, after a first call that made its own directory.
C14_Witness ==
    /\ calls = 2
    /\ pc = "done"
    /\ outcome.kind = "raised"
    /\ pending_exc = "RuntimeError"
    /\ datalayer = <<>>
    /\ Cardinality(dirs_used) = 2
    /\ tmpdirs = {}

---------------------------------------------------------------------------
(* The mask of lens_to_mask *)

\* The number of true entries of a row of the mask.
CountTrue(row) == Cardinality({t \in 1..Len(row) : row[t]})

\* C15: lens_to_mask returns one row of max_length entries per length, entry
\* t (from 0) of row i being t < L[i], so a row has min(L[i], T) true entries;
\* a row of length 0 is all false and a row with L[i] >= T is all true.
C15_MaskMarksPositionsBelowLength ==
    m_mask # <<>> =>
        /\ Len(m_mask[1]) = Len(m_lens)
        /\ \A i \in 1..Len(m_lens) :
              /\ Len(m_mask[1][i]) = m_max_length
              /\ \A t \in 0..(m_max_length - 1) :
                    m_mask[1][i][t + 1] = (t < m_lens[i])
              /\ CountTrue(m_mask[1][i]) = Min(m_lens[i], m_max_length)
              /\ m_lens[i] = 0 =>
                    \A t \in 1..m_max_length : ~m_mask[1][i][t]
              /\ m_lens[i] >= m_max_length =>
                    \A t \in 1..m_max_length : m_mask[1][i][t]

C15_Witness ==
    /\ m_lens = <<0, 3>>
    /\ m_max_length = 2
    /\ m_mask = << << <<FALSE, FALSE>>, <<TRUE, TRUE>> >> >>

---------------------------------------------------------------------------
(* Stripping special tokens twice *)

\* C16: stripping the special tokens of an already stripped text changes
\* nothing: _strip_special_tokens(_strip_special_tokens(x)) =
\* _strip_special_tokens(x) for every text x, nested, adjacent and unbalanced
\* angle brackets included.
C16_StripIsIdempotent ==
    Len(s_stripped) = 2 => s_stripped[2] = s_stripped[1]

\* "<><a>b>" gives "<>b>", and "<>b>" again.
C16_Witness ==
    /\ s_text = <<"<", ">", "<", "a", ">", "b", ">">>
    /\ s_stripped = << <<"<", ">", "b", ">">>, <<"<", ">", "b", ">">> >>

---------------------------------------------------------------------------
(* The length of a beam search run *)

\* C17: a beam search run takes at most max_sequence_length +
\* max_delta_length steps (the decoder's max_sequence_length and the
\* configured beam_search.max_generation_delta), and a run that has taken that
\* many steps can only end, whether or not a beam has emitted end-of-sequence.
C17_BeamSearchStepsBounded ==
    /\ beam.steps <= beam_cfg.decoder_max_sequence_length + beam_cfg.max_generation_delta
    /\ (/\ beam.pc = "search"
        /\ beam.steps = beam_cfg.decoder_max_sequence_length
                            + beam_cfg.max_generation_delta)
          => beam.steps = beam.limit

\* A run that ended at the limit with no beam finished.
C17_Witness ==
    /\ beam.pc = "done"
    /\ beam.finished = 0
    /\ beam_cfg.max_generation_delta > 0
    /\ beam.steps = beam_cfg.decoder_max_sequence_length + beam_cfg.max_generation_delta

=============================================================================
